---- MODULE Spec2Model ----
(***************************************************************************)
(* rusdis: an in-memory key-value server.                                  *)
(*                                                                         *)
(*   src/src/protocol.rs  RespValue, to_bytes, from_stream  (RESP codec)   *)
(*   src/src/command.rs   Command, parse_from_resp_array, execute          *)
(*   src/src/main.rs      main (accept loop), handle_client (session)      *)
(*                                                                         *)
(* Three specifications over one set of variables:                         *)
(*   SpecCodec  to_bytes and from_stream applied to bounded values         *)
(*   SpecExec   concurrent callers of parse_from_resp_array + execute      *)
(*   Spec       the server of main.rs: one handle_client task per          *)
(*              connection, sharing the Mutex-guarded HashMap              *)
(*                                                                         *)
(* Bytes are integers 0..255, byte strings are sequences of them.  A Rust  *)
(* String is a sequence of code points.                                    *)
(***************************************************************************)
EXTENDS Integers, Sequences, FiniteSets, TLC

VARIABLES
    db,      \* the HashMap behind the Mutex: a function key -> value
    lock,    \* the Mutex: 0 when free, else the task holding the guard
    pc,      \* per task: its position in handle_client / execute
    cmd,     \* per task: the command of the request in progress
    resp,    \* per task: the response computed for it
    inbox,   \* per task: the request in progress as it arrived
    out,     \* SpecExec, per task: the responses returned to it, in order
    log,     \* SpecExec: the store operations in the order they took effect
    nreq,    \* SpecExec: requests handed out so far, all tasks together
    seq,     \* Spec: a sequential store, run beside the HashMap
    expect,  \* Spec, per task: what the sequential store answered
    srv,     \* Spec: main, "listening" until it returns
    clients, \* Spec: what the clients of this run send, one read at a time
    val,     \* codec: the RespValue under test
    wire,    \* codec: the byte stream handed to from_stream
    res,     \* codec: what from_stream returned
    phase    \* codec: "value" -> "encoded" -> "decoded"

vars == <<db, lock, pc, cmd, resp, inbox, out, log, nreq, seq, expect, srv,
          clients, val, wire, res, phase>>

sessVars == <<db, lock, pc, cmd, resp, inbox, out, log, nreq, seq, expect, srv,
              clients>>
codecVars == <<val, wire, res, phase>>

----------------------------------------------------------------------------
(* Bytes and text.                                                         *)

CR == 13
LF == 10
SP == 32
\* U+FFFD, what a lossy decode puts for an invalid byte
REPLACEMENT == 65533

CRLF == <<CR, LF>>

\* "0".."9"
IsDigit(b) == b >= 48 /\ b <= 57

RECURSIVE Digits(_)
\* format!("{}", n) for n >= 0: the decimal digits, most significant first
Digits(n) ==
    IF n < 10 THEN <<48 + n>> ELSE Digits(n \div 10) \o <<48 + (n % 10)>>

\* format!("{}", i) for a signed integer (protocol.rs:20)
FormatInt(i) ==
    IF i < 0 THEN <<45>> \o Digits(0 - i) ELSE Digits(i)

RECURSIVE DigitsValue(_)
\* the number a non-empty string of digits denotes
DigitsValue(d) ==
    IF Len(d) = 0 THEN 0
    ELSE 10 * DigitsValue(SubSeq(d, 1, Len(d) - 1)) + (d[Len(d)] - 48)

\* str::parse::<i64>: an optional sign, then one or more digits, nothing else.
\* (Lines of the model stay far below the 19 digits where i64 overflows.)
ParseI64(line) ==
    LET signed == Len(line) > 0 /\ line[1] \in {43, 45}
        d == IF signed THEN SubSeq(line, 2, Len(line)) ELSE line
    IN  IF Len(d) = 0 \/ \E i \in 1..Len(d) : ~IsDigit(d[i])
        THEN [ok |-> FALSE, n |-> 0]
        ELSE [ok |-> TRUE,
              n |-> IF signed /\ line[1] = 45 THEN 0 - DigitsValue(d)
                    ELSE DigitsValue(d)]

\* String::from_utf8 accepts the bytes.  The model's byte strings hold ASCII
\* and BAD only, so the bytes are valid exactly when none of them is >= 128.
Utf8Valid(b) == \A i \in 1..Len(b) : b[i] < 128

\* String::from_utf8_lossy: every invalid byte becomes U+FFFD
Utf8Lossy(b) == [i \in 1..Len(b) |-> IF b[i] < 128 THEN b[i] ELSE REPLACEMENT]

RECURSIVE Utf8Encode(_)
\* String::as_bytes / into_bytes: U+FFFD is the three bytes EF BF BD
Utf8Encode(s) ==
    IF Len(s) = 0 THEN <<>>
    ELSE (IF s[1] < 128 THEN <<s[1]>> ELSE <<239, 191, 189>>)
         \o Utf8Encode(Tail(s))

\* char::is_whitespace, on the code points of the model (ASCII and U+FFFD)
IsWhitespace(c) == c \in {9, 10, 11, 12, 13, SP}

RECURSIVE TrimStart(_)
\* str::trim_start
TrimStart(s) ==
    IF Len(s) > 0 /\ IsWhitespace(s[1]) THEN TrimStart(Tail(s)) ELSE s

RECURSIVE TrimEnd(_)
\* str::trim_end
TrimEnd(s) ==
    IF Len(s) > 0 /\ IsWhitespace(s[Len(s)]) THEN TrimEnd(SubSeq(s, 1, Len(s) - 1)) ELSE s

\* str::trim
Trim(s) == TrimEnd(TrimStart(s))

RECURSIVE SplitFrom(_, _, _)
\* str::split_whitespace: the maximal runs of non-whitespace, in order
\* (parts: the words so far; word: the run being read; s: what is left)
SplitFrom(parts, word, s) ==
    IF Len(s) = 0 THEN (IF Len(word) = 0 THEN parts ELSE Append(parts, word))
    ELSE IF IsWhitespace(s[1])
         THEN SplitFrom(IF Len(word) = 0 THEN parts ELSE Append(parts, word), <<>>, Tail(s))
         ELSE SplitFrom(parts, Append(word, s[1]), Tail(s))

SplitWhitespace(s) == SplitFrom(<<>>, <<>>, s)

\* to_ascii_uppercase, mutated: the text is compared as it came
AsciiUnchanged(s) == s

\* str::to_ascii_uppercase
ToAsciiUppercase(s) ==
    [i \in 1..Len(s) |-> IF s[i] >= 97 /\ s[i] <= 122 THEN s[i] - 32 ELSE s[i]]

RECURSIVE Join(_)
\* [&str]::join(" ")
Join(parts) ==
    IF Len(parts) = 0 THEN <<>>
    ELSE IF Len(parts) = 1 THEN parts[1]
    ELSE parts[1] \o <<SP>> \o Join(Tail(parts))

\* the command words
W_SET == <<83, 69, 84>>
W_GET == <<71, 69, 84>>
W_DEL == <<68, 69, 76>>
W_QUIT == <<81, 85, 73, 84>>
W_LIST == <<76, 73, 83, 84>>

----------------------------------------------------------------------------
(* protocol.rs: RespValue.                                                 *)

\* enum RespValue, one record shape for all six variants
RespValue(tag, str, int, arr) == [tag |-> tag, str |-> str, int |-> int, arr |-> arr]
SimpleString(s) == RespValue("SimpleString", s, 0, <<>>)
Error(s) == RespValue("Error", s, 0, <<>>)
Integer(i) == RespValue("Integer", <<>>, i, <<>>)
BulkString(b) == RespValue("BulkString", b, 0, <<>>)
Array(a) == RespValue("Array", <<>>, 0, a)
Null == RespValue("Null", <<>>, 0, <<>>)

\* the "$<len>\r\n" header of a bulk string, mutated: the length is off by one
BulkHeaderOffByOne(b) == <<36>> \o Digits(Len(b) + 1) \o CRLF

\* format!("${}\r\n", b.len())
BulkHeader(b) == <<36>> \o Digits(Len(b)) \o CRLF

RECURSIVE to_bytes(_)
RECURSIVE to_bytes_items(_)
\* the `for item in arr` loop of to_bytes
to_bytes_items(arr) ==
    IF Len(arr) = 0 THEN <<>>
    ELSE to_bytes(Head(arr)) \o to_bytes_items(Tail(arr))

\* RespValue::to_bytes
to_bytes(v) ==
    CASE v.tag = "SimpleString" -> <<43>> \o Utf8Encode(v.str) \o CRLF
      [] v.tag = "Error"        -> <<45>> \o Utf8Encode(v.str) \o CRLF
      [] v.tag = "Integer"      -> <<58>> \o FormatInt(v.int) \o CRLF
      [] v.tag = "BulkString"   -> BulkHeader(v.str) \o v.str \o CRLF
      [] v.tag = "Array"        -> <<42>> \o Digits(Len(v.arr)) \o CRLF
                                     \o to_bytes_items(v.arr)
      [] v.tag = "Null"         -> <<36, 45, 49>> \o CRLF

\* What from_stream returns: Ok(Some(v)), Ok(None), Err(_), or a panic; with
\* the bytes of the stream it left unread.
Decoded(kind, v, rest) == [kind |-> kind, val |-> v, rest |-> rest]

\* read, mutated: a short read at end of stream is reported as success
ReadShort(s, n) ==
    IF Len(s) >= n
    THEN [ok |-> TRUE, n |-> n, data |-> SubSeq(s, 1, n), rest |-> SubSeq(s, n + 1, Len(s))]
    ELSE [ok |-> TRUE, n |-> Len(s), data |-> s, rest |-> <<>>]

\* AsyncReadExt::read_exact on a buffer of n bytes: Ok(n) with the buffer
\* filled, or Err(UnexpectedEof) when the stream ends first (the bytes read
\* until then are consumed).
ReadExact(s, n) ==
    IF Len(s) >= n
    THEN [ok |-> TRUE, n |-> n, data |-> SubSeq(s, 1, n), rest |-> SubSeq(s, n + 1, Len(s))]
    ELSE [ok |-> FALSE, n |-> 0, data |-> <<>>, rest |-> <<>>]

RECURSIVE ReadLine(_, _)
\* the loop of from_stream that reads byte by byte until the buffer ends
\* with CR LF
ReadLine(buf, s) ==
    LET r == ReadExact(s, 1)
        b == buf \o r.data
    IN  IF ~r.ok THEN [ok |-> FALSE, eof |-> FALSE, buf |-> buf, rest |-> r.rest]
        ELSE IF r.n = 0 THEN [ok |-> FALSE, eof |-> TRUE, buf |-> buf, rest |-> r.rest]
        ELSE IF Len(b) >= 2 /\ SubSeq(b, Len(b) - 1, Len(b)) = CRLF
             THEN [ok |-> TRUE, eof |-> FALSE, buf |-> b, rest |-> r.rest]
             ELSE ReadLine(b, r.rest)

\* the bulk payload read, mutated: the two bytes after the payload must be
\* CR LF
ReadBulkChecked(s, n) ==
    LET data == ReadExact(s, n)
        crlf == ReadExact(data.rest, 2)
    IN  IF ~data.ok THEN [ok |-> FALSE, data |-> <<>>, rest |-> data.rest]
        ELSE IF ~crlf.ok \/ crlf.data # CRLF THEN [ok |-> FALSE, data |-> <<>>, rest |-> crlf.rest]
        ELSE [ok |-> TRUE, data |-> data.data, rest |-> crlf.rest]

\* the `else` arm of the `$` case: a buffer of len bytes is filled by
\* read_exact, then two more bytes are read (and not looked at)
ReadBulk(s, n) ==
    LET data == ReadExact(s, n)
        crlf == ReadExact(data.rest, 2)
    IN  IF ~data.ok THEN [ok |-> FALSE, data |-> <<>>, rest |-> data.rest]
        ELSE IF ~crlf.ok THEN [ok |-> FALSE, data |-> <<>>, rest |-> crlf.rest]
        ELSE [ok |-> TRUE, data |-> data.data, rest |-> crlf.rest]

RECURSIVE from_stream(_)
RECURSIVE from_stream_elements(_, _, _)
\* the `for _ in 0..num_elements` loop of from_stream
from_stream_elements(n, elements, s) ==
    IF n = 0 THEN Decoded("Some", Array(elements), s)
    ELSE LET e == from_stream(s)
         IN  CASE e.kind = "Some" -> from_stream_elements(n - 1, Append(elements, e.val), e.rest)
               [] e.kind = "None" -> Decoded("Err", Null, e.rest)
               [] OTHER           -> e

\* the `match prefix` of from_stream, given the header line
from_stream_match(prefix, line, s) ==
    CASE prefix = 43 -> Decoded("Some", SimpleString(line), s)
      [] prefix = 45 -> Decoded("Some", Error(line), s)
      [] prefix = 58 ->
           LET p == ParseI64(line)
           IN  IF p.ok THEN Decoded("Some", Integer(p.n), s) ELSE Decoded("Err", Null, s)
      [] prefix = 36 ->
           LET p == ParseI64(line)
           IN  IF ~p.ok THEN Decoded("Err", Null, s)
               ELSE IF p.n = -1 THEN Decoded("Some", Null, s)
               ELSE IF p.n < 0 THEN Decoded("Panic", Null, s)
               ELSE LET b == ReadBulk(s, p.n)
                    IN  IF ~b.ok THEN Decoded("Err", Null, b.rest)
                        ELSE Decoded("Some", BulkString(b.data), b.rest)
      [] prefix = 42 ->
           LET p == ParseI64(line)
           IN  IF ~p.ok THEN Decoded("Err", Null, s)
               ELSE IF p.n = -1 THEN Decoded("Some", Null, s)
               ELSE IF p.n < 0 THEN Decoded("Panic", Null, s)
               ELSE from_stream_elements(p.n, <<>>, s)
      [] OTHER -> Decoded("Err", Null, s)

\* RespValue::from_stream
from_stream(s) ==
    LET first == ReadExact(s, 1)
    IN  IF ~first.ok THEN Decoded("Err", Null, first.rest)
        ELSE IF first.n = 0 THEN Decoded("None", Null, first.rest)
        ELSE LET l == ReadLine(<<>>, first.rest)
             IN  IF ~l.ok THEN Decoded("Err", Null, l.rest)
                 ELSE LET raw == SubSeq(l.buf, 1, Len(l.buf) - 2)
                      IN  IF ~Utf8Valid(raw) THEN Decoded("Err", Null, l.rest)
                          ELSE from_stream_match(first.data[1], raw, l.rest)

\* The size from_stream asks the allocator for on reading the header at the
\* start of s: vec![0; len as usize] for `$`, Vec::with_capacity(num_elements
\* as usize) for `*`; 0 where it allocates nothing of a declared size.  (A
\* negative length other than -1 is the panic of from_stream_match.)
AllocRequest(s) ==
    LET first == ReadExact(s, 1)
        l == IF first.ok THEN ReadLine(<<>>, first.rest)
             ELSE [ok |-> FALSE, eof |-> FALSE, buf |-> <<>>, rest |-> <<>>]
        raw == IF l.ok THEN SubSeq(l.buf, 1, Len(l.buf) - 2) ELSE <<>>
        p == ParseI64(raw)
    IN  IF l.ok /\ Utf8Valid(raw) /\ first.data[1] \in {36, 42} /\ p.ok /\ p.n >= 0
        THEN p.n ELSE 0

----------------------------------------------------------------------------
(* SpecCodec: to_bytes and from_stream applied to bounded values.          *)

\* bound: the number of nodes (variants) a value under test is built from
MaxNodes == 3

\* The leaves under test.  Text of SimpleString and Error holds no CR or LF
\* (the wire form ends the text at the first CR LF); bulk payloads hold any
\* byte, CR LF and the non-UTF-8 byte 255 included.
Atoms ==
    { SimpleString(<<79, 75>>), SimpleString(<<>>), Error(<<69, 82, 82, 32, 120>>),
      Integer(0), Integer(-12), Integer(105),
      BulkString(<<>>), BulkString(<<104, 105>>), BulkString(<<13, 10>>),
      BulkString(<<255, 32, 13>>), Null }

RECURSIVE Nodes(_)
RECURSIVE NodesOfItems(_)
\* the number of variants in a list of values
NodesOfItems(a) == IF Len(a) = 0 THEN 0 ELSE Nodes(Head(a)) + NodesOfItems(Tail(a))

\* the number of variants a value is built from
Nodes(v) == IF v.tag = "Array" THEN 1 + NodesOfItems(v.arr) ELSE 1

RECURSIVE ValuesUpTo(_)
RECURSIVE ListsUpTo(_)
\* the lists of values built from at most n variants in all
ListsUpTo(n) ==
    {<<>>} \cup
    UNION { { <<v>> \o rest : rest \in ListsUpTo(n - Nodes(v)) } : v \in ValuesUpTo(n) }

\* the values built from at most n variants
ValuesUpTo(n) ==
    IF n <= 0 THEN {}
    ELSE Atoms \cup { Array(a) : a \in ListsUpTo(n - 1) }

\* bytes that may follow a value on the stream (the start of the next one)
Followers == { <<43, 79, 75, 13, 10>>, <<13, 10>>, <<36, 49>> }

\* pairs of bytes that may stand where the CR LF after a bulk payload belongs
Trailers == { <<13, 10>>, <<88, 89>>, <<10, 13>>, <<0, 255>> }

\* headers declaring a hostile length or count: "$-2", "*-5", "$2000000000",
\* "*2000000000", each with its CR LF
HostileHeaders ==
    { <<36, 45, 50>> \o CRLF, <<42, 45, 53>> \o CRLF,
      <<36>> \o Digits(2000000000) \o CRLF, <<42>> \o Digits(2000000000) \o CRLF }

NoResult == Decoded("NotRun", Null, <<>>)

IsPrefix(p, s) == Len(p) <= Len(s) /\ SubSeq(s, 1, Len(p)) = p

InitCodec ==
    /\ val \in ValuesUpTo(MaxNodes)
    /\ wire = <<>>
    /\ res = NoResult
    /\ phase = "value"
    /\ db = <<>> /\ lock = 0 /\ pc = <<>> /\ cmd = <<>> /\ resp = <<>>
    /\ inbox = <<>> /\ out = <<>> /\ log = <<>> /\ nreq = 0
    /\ seq = {} /\ expect = <<>> /\ srv = "off" /\ clients = {}

\* v.to_bytes() is put on the stream
Encode ==
    /\ phase = "value"
    /\ wire' = to_bytes(val)
    /\ phase' = "encoded"
    /\ UNCHANGED <<val, res>>

\* more bytes follow the value on the stream
Follow ==
    /\ phase = "encoded"
    /\ \E f \in Followers : wire' = wire \o f
    /\ phase' = "followed"
    /\ UNCHANGED <<val, res>>

\* the stream ends after its first n bytes
Truncate ==
    /\ phase = "encoded"
    /\ \E n \in 0..(Len(wire) - 1) : wire' = SubSeq(wire, 1, n)
    /\ phase' = "cut"
    /\ UNCHANGED <<val, res>>

\* a peer writes a bulk string with two other bytes in place of its CR LF,
\* and goes on with the next value
Tamper ==
    /\ phase = "value"
    /\ val.tag = "BulkString"
    /\ \E t \in Trailers, f \in Followers \cup {<<>>} :
           wire' = BulkHeader(val.str) \o val.str \o t \o f
    /\ phase' = "tampered"
    /\ UNCHANGED <<val, res>>

\* a peer writes a header with a hostile length before the value
Hostile ==
    /\ phase = "encoded"
    /\ \E h \in HostileHeaders : wire' = h \o wire
    /\ phase' = "hostile"
    /\ UNCHANGED <<val, res>>

\* RespValue::from_stream(&mut stream)
Decode ==
    /\ phase \in {"encoded", "followed", "cut", "tampered", "hostile"}
    /\ res' = from_stream(wire)
    /\ phase' = "decoded"
    /\ UNCHANGED <<val, wire>>

NextCodec ==
    \/ (Encode /\ UNCHANGED sessVars)
    \/ (Follow /\ UNCHANGED sessVars)
    \/ (Truncate /\ UNCHANGED sessVars)
    \/ (Tamper /\ UNCHANGED sessVars)
    \/ (Hostile /\ UNCHANGED sessVars)
    \/ (Decode /\ UNCHANGED sessVars)

SpecCodec == InitCodec /\ [][NextCodec]_vars

\* C6: decoding the bytes to_bytes produced for a value yields that value and
\* leaves exactly the bytes that followed it unread.
C6_RoundTrip ==
    (phase = "decoded" /\ IsPrefix(to_bytes(val), wire)) =>
        /\ res.kind = "Some"
        /\ res.val = val
        /\ res.rest = SubSeq(wire, Len(to_bytes(val)) + 1, Len(wire))

\* a nested array holding a bulk string with CR LF and a non-UTF-8 byte is
\* decoded back, with bytes following it on the stream
C6_Witness ==
    /\ phase = "decoded"
    /\ val = Array(<<Array(<<BulkString(<<255, 32, 13>>)>>)>>)
    /\ Len(wire) > Len(to_bytes(val))
    /\ res.val = val

\* C7 (as claimed): at end of input before any byte of a value, from_stream
\* returns Ok(None).
C7_CleanEndIsNoValue ==
    (phase = "decoded" /\ wire = <<>>) => res.kind = "None"

\* C8: a stream that ends after the type byte and before the value is
\* complete makes from_stream return an error.
C8_TruncatedIsError ==
    (phase = "decoded" /\ Len(wire) >= 1 /\ Len(wire) < Len(to_bytes(val))
        /\ IsPrefix(wire, to_bytes(val)))
    => res.kind = "Err"

\* "$2\r\nhi" then end of stream: the payload is there, its CR LF is not
C8_Witness ==
    /\ phase = "decoded"
    /\ val = BulkString(<<104, 105>>)
    /\ wire = <<36, 50, 13, 10, 104, 105>>
    /\ res.kind = "Err"

\* C16 (as claimed): a `$` or `*` header declaring an implausibly large
\* length, or a negative one other than -1, makes from_stream return an error,
\* and no allocation of the declared size is asked for.
C16_HostileLengthRejected ==
    (phase = "decoded" /\ \E h \in HostileHeaders : IsPrefix(h, wire)) =>
        /\ res.kind = "Err"
        /\ AllocRequest(wire) = 0

\* C17: after a "$<n>" header with n >= 0, from_stream takes exactly n payload
\* bytes and exactly two more, whatever they are: it returns the payload
\* intact and leaves the bytes after those two unread.
C17_BulkByLength ==
    (phase = "decoded" /\ val.tag = "BulkString"
        /\ IsPrefix(BulkHeader(val.str) \o val.str, wire)
        /\ Len(wire) >= Len(to_bytes(val))) =>
        /\ res.kind = "Some"
        /\ res.val = val
        /\ res.rest = SubSeq(wire, Len(to_bytes(val)) + 1, Len(wire))

\* "$3\r\n" 255 32 13, then "XY" where CR LF belongs, then "+OK\r\n": the
\* payload comes back whole and the next value is left on the stream
C17_Witness ==
    /\ phase = "decoded"
    /\ val = BulkString(<<255, 32, 13>>)
    /\ wire = <<36, 51, 13, 10, 255, 32, 13, 88, 89, 43, 79, 75, 13, 10>>
    /\ res = Decoded("Some", val, <<43, 79, 75, 13, 10>>)

\* "$2\r\n" CR LF, then LF CR: a payload that is itself CR LF does not end
\* the value early
C17_WitnessCrLfPayload ==
    /\ phase = "decoded"
    /\ val = BulkString(<<13, 10>>)
    /\ wire = <<36, 50, 13, 10, 13, 10, 10, 13>>
    /\ res = Decoded("Some", val, <<>>)

----------------------------------------------------------------------------
(* The shared store: Arc<Mutex<HashMap<..>>>.                              *)

\* bound: the number of concurrent tasks (connections)
NumSessions == 2

\* bound: the number of requests the tasks receive, all together
MaxReq == 3

Sessions == 1..NumSessions

\* HashMap::new()
EmptyMap == [k \in {} |-> <<>>]

\* HashMap::insert, mutated: an existing entry is kept (or_insert)
HashMapInsertIfAbsent(m, k, v) ==
    [x \in (DOMAIN m) \cup {k} |-> IF x \in DOMAIN m THEN m[x] ELSE v]

\* HashMap::insert(k, v): inserts or overwrites
HashMapInsert(m, k, v) ==
    [x \in (DOMAIN m) \cup {k} |-> IF x = k THEN v ELSE m[x]]

\* HashMap::get(&k): Some(value) or None
HashMapGet(m, k) ==
    IF k \in DOMAIN m THEN [some |-> TRUE, v |-> m[k]] ELSE [some |-> FALSE, v |-> <<>>]

\* HashMap::remove, mutated: the whole map is emptied (clear)
HashMapRemoveAll(m, k) ==
    [map |-> [x \in {} |-> <<>>], some |-> k \in DOMAIN m]

\* HashMap::remove(&k): the map without k, and whether k was there
HashMapRemove(m, k) ==
    [map |-> [x \in (DOMAIN m) \ {k} |-> m[x]], some |-> k \in DOMAIN m]

\* Mutex::lock, mutated: the guard is handed out whoever holds it
MutexUnguarded == TRUE

\* Mutex::lock, mutated: a poisoned lock is taken like a free one
\* (unwrap_or_else(PoisonError::into_inner))
MutexFreeOrPoisoned == lock \in {0, -1}

\* Mutex::lock returns when no other task holds the guard
MutexFree == lock = 0

----------------------------------------------------------------------------
(* command.rs: Command, parse_from_resp_array, execute.                    *)

\* enum Command
Command(name, key, value) == [name |-> name, key |-> key, value |-> value]
Unknown == Command("Unknown", <<>>, <<>>)
Quit == Command("Quit", <<>>, <<>>)

\* parse_from_resp_array, mutated: SET wants exactly three elements
parse_set_exactly_three(array) ==
    IF Len(array) = 0 THEN Unknown
    ELSE IF array[1].tag \notin {"BulkString", "SimpleString"} THEN Unknown
    ELSE LET command_name ==
                 IF array[1].tag = "BulkString"
                 THEN ToAsciiUppercase(Utf8Lossy(array[1].str))
                 ELSE ToAsciiUppercase(array[1].str)
         IN  CASE command_name = W_SET ->
                    IF Len(array) = 3 /\ array[2].tag = "BulkString" /\ array[3].tag = "BulkString"
                    THEN Command("Set", Utf8Lossy(array[2].str), array[3].str)
                    ELSE Unknown
               [] command_name = W_GET ->
                    IF Len(array) = 2 /\ array[2].tag = "BulkString"
                    THEN Command("Get", Utf8Lossy(array[2].str), <<>>)
                    ELSE Unknown
               [] command_name = W_DEL ->
                    IF Len(array) = 2 /\ array[2].tag = "BulkString"
                    THEN Command("Del", Utf8Lossy(array[2].str), <<>>)
                    ELSE Unknown
               [] command_name = W_QUIT -> Quit
               [] OTHER -> Unknown

\* Command::parse_from_resp_array
parse_from_resp_array(array) ==
    IF Len(array) = 0 THEN Unknown
    ELSE IF array[1].tag \notin {"BulkString", "SimpleString"} THEN Unknown
    ELSE LET command_name ==
                 IF array[1].tag = "BulkString"
                 THEN ToAsciiUppercase(Utf8Lossy(array[1].str))
                 ELSE ToAsciiUppercase(array[1].str)
         IN  CASE command_name = W_SET ->
                    IF Len(array) >= 3
                    THEN IF array[2].tag = "BulkString" /\ array[3].tag = "BulkString"
                         THEN Command("Set", Utf8Lossy(array[2].str), array[3].str)
                         ELSE Unknown
                    ELSE Unknown
               [] command_name = W_GET ->
                    IF Len(array) = 2
                    THEN IF array[2].tag = "BulkString"
                         THEN Command("Get", Utf8Lossy(array[2].str), <<>>)
                         ELSE Unknown
                    ELSE Unknown
               [] command_name = W_DEL ->
                    IF Len(array) = 2
                    THEN IF array[2].tag = "BulkString"
                         THEN Command("Del", Utf8Lossy(array[2].str), <<>>)
                         ELSE Unknown
                    ELSE Unknown
               [] command_name = W_QUIT -> Quit
               [] OTHER -> Unknown

\* "OK"
T_OK == <<79, 75>>
\* "Connection closing shortly"
T_CLOSING == <<67, 111, 110, 110, 101, 99, 116, 105, 111, 110, 32, 99, 108, 111, 115, 105, 110, 103, 32, 115, 104, 111, 114, 116, 108, 121>>
\* the text of the Unknown arm, mutated: "ERR unknown command"
T_UNKNOWN_COMMAND == <<69, 82, 82, 32, 117, 110, 107, 110, 111, 119, 110, 32, 99, 111, 109, 109, 97, 110, 100>>
\* "ERR unknown command or malformed command arguments"
T_UNKNOWN == <<69, 82, 82, 32, 117, 110, 107, 110, 111, 119, 110, 32, 99, 111, 109, 109, 97, 110, 100, 32, 111, 114, 32, 109, 97, 108, 102, 111, 114, 109, 101, 100, 32, 99, 111, 109, 109, 97, 110, 100, 32, 97, 114, 103, 117, 109, 101, 110, 116, 115>>

\* the arms of Command::execute that take the lock
TakesLock(c) == c.name \in {"Set", "Get", "Del"}

\* Command::execute, from the lock (where it takes one) to its return: the
\* map it leaves and the RespValue it returns
execute(c, m) ==
    CASE c.name = "Set" ->
           [db |-> HashMapInsert(m, c.key, c.value), resp |-> SimpleString(T_OK)]
      [] c.name = "Get" ->
           LET g == HashMapGet(m, c.key)
           IN  [db |-> m, resp |-> IF g.some THEN BulkString(g.v) ELSE Null]
      [] c.name = "Del" ->
           LET r == HashMapRemove(m, c.key)
           IN  [db |-> r.map, resp |-> IF r.some THEN Integer(1) ELSE Integer(0)]
      [] c.name = "Quit" ->
           [db |-> m, resp |-> SimpleString(T_CLOSING)]
      [] OTHER ->
           [db |-> m, resp |-> Error(T_UNKNOWN)]

----------------------------------------------------------------------------
(* SpecExec: tasks that translate request arrays and execute them on the   *)
(* shared store, concurrently.                                             *)

\* an operation as it took effect: who ran it, the command, the response,
\* and the store before and after
Effect(s, c, r, pre, post, req) ==
    [s |-> s, cmd |-> c, resp |-> r, pre |-> pre, post |-> post, req |-> req]

\* "k", "j"
KeyK == <<107>>
KeyJ == <<106>>
\* two values; the second is no valid UTF-8 and holds a CR LF
Val1 == <<118, 49>>
Val2 == <<255, 13, 10, 0>>

\* the request arrays the tasks are handed
ExecRequests ==
    { <<BulkString(W_SET), BulkString(KeyK), BulkString(Val1)>>,
      <<BulkString(<<115, 101, 116>>), BulkString(KeyK), BulkString(Val2)>>,
      <<SimpleString(<<71, 101, 116>>), BulkString(KeyK)>>,
      <<BulkString(W_GET), BulkString(KeyJ)>>,
      <<BulkString(W_DEL), BulkString(KeyK)>>,
      <<BulkString(W_QUIT)>>,
      <<BulkString(W_SET), BulkString(KeyK)>>,
      <<BulkString(W_SET), BulkString(KeyJ), BulkString(Val1)>>,
      <<>> }

InitExec ==
    /\ db = EmptyMap
    /\ lock = 0
    /\ pc = [s \in Sessions |-> "idle"]
    /\ cmd = [s \in Sessions |-> Unknown]
    /\ resp = [s \in Sessions |-> <<>>]
    /\ inbox = [s \in Sessions |-> <<>>]
    /\ out = [s \in Sessions |-> <<>>]
    /\ log = <<>>
    /\ nreq = 0
    /\ seq = {} /\ expect = <<>> /\ srv = "off" /\ clients = {}
    /\ val = Null /\ wire = <<>> /\ res = NoResult /\ phase = "off"

\* a task is handed a request array and translates it
Call(s) ==
    /\ pc[s] = "idle"
    /\ nreq < MaxReq
    /\ \E array \in ExecRequests :
         /\ inbox' = [inbox EXCEPT ![s] = array]
         /\ cmd' = [cmd EXCEPT ![s] = parse_from_resp_array(array)]
    /\ pc' = [pc EXCEPT ![s] = "exec"]
    /\ nreq' = nreq + 1
    /\ UNCHANGED <<db, lock, resp, out, log, seq, expect, srv, clients>>

\* execute, Set/Get/Del: db.lock().expect(..)
ExecLock(s) ==
    /\ pc[s] = "exec"
    /\ TakesLock(cmd[s])
    /\ MutexFree
    /\ lock' = s
    /\ pc' = [pc EXCEPT ![s] = "locked"]
    /\ UNCHANGED <<db, cmd, resp, inbox, out, log, nreq, seq, expect, srv, clients>>

\* execute, Set/Get/Del: the map operation, the guard dropped, the return
ExecApply(s) ==
    /\ pc[s] = "locked"
    /\ lock = s
    /\ LET r == execute(cmd[s], db)
       IN  /\ db' = r.db
           /\ resp' = [resp EXCEPT ![s] = r.resp]
           /\ out' = [out EXCEPT ![s] = Append(@, r.resp)]
           /\ log' = Append(log, Effect(s, cmd[s], r.resp, db, r.db, inbox[s]))
    /\ lock' = 0
    /\ pc' = [pc EXCEPT ![s] = "idle"]
    /\ UNCHANGED <<cmd, inbox, nreq, seq, expect, srv, clients>>

\* execute, Quit/Unknown: no lock is taken
ExecPlain(s) ==
    /\ pc[s] = "exec"
    /\ ~TakesLock(cmd[s])
    /\ LET r == execute(cmd[s], db)
       IN  /\ db' = r.db
           /\ resp' = [resp EXCEPT ![s] = r.resp]
           /\ out' = [out EXCEPT ![s] = Append(@, r.resp)]
    /\ pc' = [pc EXCEPT ![s] = "idle"]
    /\ UNCHANGED <<lock, cmd, inbox, log, nreq, seq, expect, srv, clients>>

NextExec ==
    \/ \E s \in Sessions : Call(s) /\ UNCHANGED codecVars
    \/ \E s \in Sessions : ExecLock(s) /\ UNCHANGED codecVars
    \/ \E s \in Sessions : ExecApply(s) /\ UNCHANGED codecVars
    \/ \E s \in Sessions : ExecPlain(s) /\ UNCHANGED codecVars

SpecExec == InitExec /\ [][NextExec]_vars

\* the operations on key k among the first n of the log that wrote it
WritesBefore(l, n, k) ==
    { j \in 1..n : l[j].cmd.name \in {"Set", "Del"} /\ l[j].cmd.key = k }

\* the last of a non-empty set of indices
Last(S) == CHOOSE j \in S : \A i \in S : i <= j

\* key k is absent after the first n operations of the log: nothing wrote it,
\* or the last to write it was a Del
AbsentAfter(l, n, k) ==
    LET W == WritesBefore(l, n, k)
    IN  W = {} \/ l[Last(W)].cmd.name = "Del"

\* C3: Get k returns the value of the most recent Set on k, unless a Del on k
\* followed that Set; the store holds that value and no earlier one.
C3_LastWriteWins ==
    \A i \in 1..Len(log) :
        LET k == log[i].cmd.key
            W == WritesBefore(log, i - 1, k)
        IN  (log[i].cmd.name = "Get" /\ W # {} /\ log[Last(W)].cmd.name = "Set") =>
                /\ log[i].resp = BulkString(log[Last(W)].cmd.value)
                /\ log[i].post[k] = log[Last(W)].cmd.value

\* Set k v1, Set k v2, Get k: the Get returned v2
C3_Witness ==
    /\ Len(log) = 3
    /\ log[1].cmd = Command("Set", KeyK, Val1)
    /\ log[2].cmd = Command("Set", KeyK, Val2)
    /\ log[3].cmd = Command("Get", KeyK, <<>>)
    /\ log[3].resp = BulkString(Val2)

\* C4, of Command::execute alone: Get on an absent key returns Null; Del on
\* an absent key returns Integer(0) and leaves the store as it was; Del on a
\* present key returns Integer(1) and removes it.
C4_ExecuteResults ==
    \A i \in 1..Len(log) :
        LET c == log[i].cmd
            absent == AbsentAfter(log, i - 1, c.key)
        IN  /\ (c.name = "Get" /\ absent) => log[i].resp = Null
            /\ (c.name = "Del" /\ absent) =>
                   log[i].resp = Integer(0) /\ log[i].post = log[i].pre
            /\ (c.name = "Del" /\ ~absent) =>
                   /\ log[i].resp = Integer(1)
                   /\ c.key \notin DOMAIN log[i].post
                   /\ \A x \in DOMAIN log[i].pre :
                          x # c.key => (x \in DOMAIN log[i].post /\ log[i].post[x] = log[i].pre[x])

\* Set k, Del k -> 1, Get k -> Null
C4_ExecuteWitness ==
    /\ Len(log) = 3
    /\ log[1].cmd.name = "Set"
    /\ log[2].cmd = Command("Del", KeyK, <<>>) /\ log[2].resp = Integer(1)
    /\ log[3].cmd = Command("Get", KeyK, <<>>) /\ log[3].resp = Null

\* C19: the store changes only in a step that executes a Set or a Del, and
\* then at most in the entry of that command's key: the entry of every other
\* key is as before.  Executing Get, Quit or Unknown, handing a task its
\* request and translating it leave the whole store unchanged.
C19_Frame ==
    [][db' # db =>
          \E s \in Sessions :
              /\ pc[s] = "locked" /\ pc'[s] = "idle"
              /\ cmd[s].name \in {"Set", "Del"}
              /\ \A k \in (DOMAIN db \cup DOMAIN db') \ {cmd[s].key} :
                     k \in DOMAIN db /\ k \in DOMAIN db' /\ db'[k] = db[k]]_vars

\* a Del of "k" took effect on a store that held "k" and "j", and "j" is
\* still there with its value
C19_Witness ==
    \E i \in 1..Len(log) :
        /\ log[i].cmd = Command("Del", KeyK, <<>>)
        /\ DOMAIN log[i].pre = {KeyK, KeyJ}
        /\ DOMAIN log[i].post = {KeyJ}
        /\ log[i].post[KeyJ] = Val1

----------------------------------------------------------------------------
(* SpecTranslate: parse_from_resp_array and execute applied to bounded     *)
(* request arrays, one at a time.                                          *)

\* bound: the number of elements after the command name in a request array
MaxArgs == 3

\* what stands first in a request array: command names in several letter
\* cases, as BulkString and as SimpleString, other names, and values that are
\* no name at all
Names ==
    { BulkString(W_SET), BulkString(<<115, 101, 116>>), SimpleString(<<115, 69, 116>>),
      BulkString(W_GET), SimpleString(<<71, 101, 116>>),
      BulkString(W_DEL), BulkString(<<100, 101, 76>>),
      BulkString(W_QUIT), SimpleString(<<113, 117, 105, 116>>), BulkString(<<113, 85, 105, 84>>),
      BulkString(<<80, 73, 78, 71>>), BulkString(<<83, 69, 84, 83>>), BulkString(<<255>> \o W_GET),
      Integer(1), Null, Array(<<>>) }

\* what follows the name: bulk strings (one of them no valid UTF-8, holding
\* CR LF) and values that are no bulk string
Args == { BulkString(KeyK), BulkString(Val2), SimpleString(KeyK), Integer(7) }

\* the lists of at most n arguments
ArgLists(n) == UNION { [1..k -> Args] : k \in 0..n }

\* the request arrays under test
RequestArrays ==
    {<<>>} \cup { <<nm>> \o a : nm \in Names, a \in ArgLists(MaxArgs) }

\* the stores a command is executed on
Stores == { EmptyMap, [x \in {KeyK, KeyJ} |-> Val1] }

InitTranslate ==
    /\ val \in { Array(a) : a \in RequestArrays }
    /\ db \in Stores
    /\ phase = "array"
    /\ cmd = <<>> /\ resp = <<>> /\ log = <<>>
    /\ lock = 0 /\ pc = <<>> /\ inbox = <<>> /\ out = <<>> /\ nreq = 0
    /\ seq = {} /\ expect = <<>> /\ srv = "off" /\ clients = {}
    /\ wire = <<>> /\ res = NoResult

\* Command::parse_from_resp_array(array)
Translate ==
    /\ phase = "array"
    /\ cmd' = <<parse_from_resp_array(val.arr)>>
    /\ phase' = "translated"
    /\ UNCHANGED <<db, lock, pc, resp, inbox, out, log, nreq, seq, expect, srv, clients, val, wire, res>>

\* command.execute(db, socket), from call to return
Run ==
    /\ phase = "translated"
    /\ LET r == execute(cmd[1], db)
       IN  /\ db' = r.db
           /\ resp' = <<r.resp>>
           /\ log' = <<Effect(1, cmd[1], r.resp, db, r.db, val.arr)>>
    /\ phase' = "executed"
    /\ UNCHANGED <<lock, pc, cmd, inbox, out, nreq, seq, expect, srv, clients, val, wire, res>>

NextTranslate ==
    \/ Translate
    \/ Run

SpecTranslate == InitTranslate /\ [][NextTranslate]_vars

\* "ERR unknown command or malformed command arguments"
C11_Text ==
    <<69, 82, 82, 32, 117, 110, 107, 110, 111, 119, 110, 32, 99, 111, 109, 109, 97, 110, 100, 32, 111, 114, 32, 109, 97, 108, 102, 111, 114, 109, 101, 100, 32, 99, 111, 109, 109, 97, 110, 100, 32, 97, 114, 103, 117, 109, 101, 110, 116, 115>>

\* C11: an empty request array, or one whose first element is neither
\* BulkString nor SimpleString, translates to Unknown; executing Unknown
\* returns Error with exactly the text above, leaves the store as it was, and
\* is no Quit (the connection is not closed for it).
C11_UnknownRequest ==
    /\ (phase \in {"translated", "executed"}
          /\ (Len(val.arr) = 0 \/ val.arr[1].tag \notin {"BulkString", "SimpleString"}))
       => cmd[1] = Unknown
    /\ (phase = "executed" /\ cmd[1] = Unknown)
       => /\ resp[1] = Error(C11_Text)
          /\ db = log[1].pre
          /\ cmd[1] # Quit

\* the array <<Integer(1), BulkString("k")>> has been translated and executed
\* on a store that holds keys
C11_Witness ==
    /\ phase = "executed"
    /\ val = Array(<<Integer(1), BulkString(KeyK)>>)
    /\ KeyK \in DOMAIN db
    /\ resp[1].tag = "Error"

\* the letters of text t are those of the upper-case word w, in any case
CaseVariant(t, w) ==
    /\ Len(t) = Len(w)
    /\ \A i \in 1..Len(t) : t[i] = w[i] \/ (t[i] \in 97..122 /\ t[i] - 32 = w[i])

\* the text of the command name of a request array, if it has one
HasName(a) == Len(a) > 0 /\ a[1].tag \in {"BulkString", "SimpleString"}
NameText(a) == IF a[1].tag = "BulkString" THEN Utf8Lossy(a[1].str) ELSE a[1].str

IsBulk(a, i) == i <= Len(a) /\ a[i].tag = "BulkString"

\* C12: SET yields Set{key, value} exactly when the array has at least 3
\* elements and elements 1 and 2 are BulkStrings, the value being element 2
\* alone; GET and DEL yield Get / Del exactly when the array has exactly 2
\* elements and element 1 is a BulkString; otherwise Unknown.  Every array
\* translates to one of the five variants.
C12_ArityRules ==
    phase \in {"translated", "executed"} =>
        LET a == val.arr
            c == cmd[1]
        IN  /\ c.name \in {"Set", "Get", "Del", "Quit", "Unknown"}
            /\ (HasName(a) /\ CaseVariant(NameText(a), W_SET)) =>
                   c = IF Len(a) >= 3 /\ IsBulk(a, 2) /\ IsBulk(a, 3)
                       THEN Command("Set", Utf8Lossy(a[2].str), a[3].str)
                       ELSE Unknown
            /\ (HasName(a) /\ CaseVariant(NameText(a), W_GET)) =>
                   c = IF Len(a) = 2 /\ IsBulk(a, 2)
                       THEN Command("Get", Utf8Lossy(a[2].str), <<>>)
                       ELSE Unknown
            /\ (HasName(a) /\ CaseVariant(NameText(a), W_DEL)) =>
                   c = IF Len(a) = 2 /\ IsBulk(a, 2)
                       THEN Command("Del", Utf8Lossy(a[2].str), <<>>)
                       ELSE Unknown

\* SET k <value> <one more element>: the value is element 2, the fourth
\* element is ignored
C12_Witness ==
    /\ phase = "translated"
    /\ val = Array(<<BulkString(W_SET), BulkString(KeyK), BulkString(Val2), Integer(7)>>)
    /\ cmd[1] = Command("Set", KeyK, Val2)

\* a request array with the name replaced by the BulkString of word w
WithName(a, w) == <<BulkString(w)>> \o Tail(a)

\* C18: a command name in any letter case, BulkString or SimpleString,
\* selects the command its upper-case form selects; QUIT translates to Quit
\* whatever follows it; any other name translates to Unknown.
C18_CaseInsensitive ==
    (phase \in {"translated", "executed"} /\ HasName(val.arr)) =>
        LET a == val.arr
            t == NameText(a)
        IN  /\ \A w \in {W_SET, W_GET, W_DEL, W_QUIT} :
                   CaseVariant(t, w) => cmd[1] = parse_from_resp_array(WithName(a, w))
            /\ CaseVariant(t, W_QUIT) => cmd[1] = Quit
            /\ (\A w \in {W_SET, W_GET, W_DEL, W_QUIT} : ~CaseVariant(t, w)) => cmd[1] = Unknown

\* SimpleString("sEt") k <value> has been translated to Set
C18_Witness ==
    /\ phase = "translated"
    /\ val = Array(<<SimpleString(<<115, 69, 116>>), BulkString(KeyK), BulkString(Val2)>>)
    /\ cmd[1].name = "Set"

\* "qUiT" followed by three arguments has been translated to Quit
C18_WitnessQuit ==
    /\ phase = "translated"
    /\ Len(val.arr) = 4
    /\ val.arr[1] = BulkString(<<113, 85, 105, 84>>)
    /\ cmd[1] = Quit

----------------------------------------------------------------------------
(* main.rs: main and handle_client.                                        *)

\* let mut buf = vec![0; 1024]: the most one read returns
BufSize == 1024

\* "OK\n"
R_OK == <<79, 75, 10>>
\* "(nil)\n"
R_NIL == <<40, 110, 105, 108, 41, 10>>
\* "ERR wrong number of arguments for 'SET' command\n"
R_ARGS_SET ==
    <<69, 82, 82, 32, 119, 114, 111, 110, 103, 32, 110, 117, 109, 98, 101,
      114, 32, 111, 102, 32, 97, 114, 103, 117, 109, 101, 110, 116, 115,
      32, 102, 111, 114, 32, 39, 83, 69, 84, 39, 32, 99, 111, 109, 109, 97,
      110, 100, 10>>
\* "ERR wrong number of arguments for 'GET' command\n"
R_ARGS_GET ==
    <<69, 82, 82, 32, 119, 114, 111, 110, 103, 32, 110, 117, 109, 98, 101,
      114, 32, 111, 102, 32, 97, 114, 103, 117, 109, 101, 110, 116, 115,
      32, 102, 111, 114, 32, 39, 71, 69, 84, 39, 32, 99, 111, 109, 109, 97,
      110, 100, 10>>
\* "ERR wrong number of arguments for 'DEL' command\n"
R_ARGS_DEL ==
    <<69, 82, 82, 32, 119, 114, 111, 110, 103, 32, 110, 117, 109, 98, 101,
      114, 32, 111, 102, 32, 97, 114, 103, 117, 109, 101, 110, 116, 115,
      32, 102, 111, 114, 32, 39, 68, 69, 76, 39, 32, 99, 111, 109, 109, 97,
      110, 100, 10>>
\* "Connection will be closed shortly!\n"
R_QUIT ==
    <<67, 111, 110, 110, 101, 99, 116, 105, 111, 110, 32, 119, 105, 108,
      108, 32, 98, 101, 32, 99, 108, 111, 115, 101, 100, 32, 115, 104, 111,
      114, 116, 108, 121, 33, 10>>
\* "Available commands are:\n SET <key> <value>\n GET <key>\n DEL <key>\n QUIT (to close connection)\n"
R_LIST ==
    <<65, 118, 97, 105, 108, 97, 98, 108, 101, 32, 99, 111, 109, 109, 97,
      110, 100, 115, 32, 97, 114, 101, 58, 10, 32, 83, 69, 84, 32, 60, 107,
      101, 121, 62, 32, 60, 118, 97, 108, 117, 101, 62, 10, 32, 71, 69, 84,
      32, 60, 107, 101, 121, 62, 10, 32, 68, 69, 76, 32, 60, 107, 101, 121,
      62, 10, 32, 81, 85, 73, 84, 32, 40, 116, 111, 32, 99, 108, 111, 115,
      101, 32, 99, 111, 110, 110, 101, 99, 116, 105, 111, 110, 41, 10>>
\* "ERR unknown command\n Use LIST to see available commands\n"
R_UNKNOWN ==
    <<69, 82, 82, 32, 117, 110, 107, 110, 111, 119, 110, 32, 99, 111, 109,
      109, 97, 110, 100, 10, 32, 85, 115, 101, 32, 76, 73, 83, 84, 32, 116,
      111, 32, 115, 101, 101, 32, 97, 118, 97, 105, 108, 97, 98, 108, 101,
      32, 99, 111, 109, 109, 97, 110, 100, 115, 10>>
\* "ERR empty command\n"
R_EMPTY == <<69, 82, 82, 32, 101, 109, 112, 116, 121, 32, 99, 111, 109, 109, 97, 110, 100, 10>>

\* what handle_client makes of one read: the store operation to run under
\* the lock (op SET, GET, DEL), or the response it has already (op QUIT, NONE)
Request(op, key, value, response) ==
    [op |-> op, key |-> key, value |-> value, resp |-> response]

\* handle_client, from the bytes of one read to the `match` on the command
\* word: lossy decode, trim, split on whitespace, upper-case the first word
Dispatch(bytes) ==
    LET command_str == Trim(Utf8Lossy(bytes))
        parts == SplitWhitespace(command_str)
    IN  IF Len(parts) = 0 THEN Request("NONE", <<>>, <<>>, R_EMPTY)
        ELSE LET word == ToAsciiUppercase(parts[1])
             IN  CASE word = W_SET ->
                        IF Len(parts) >= 3
                        THEN Request("SET", parts[2], Join(SubSeq(parts, 3, Len(parts))), <<>>)
                        ELSE Request("NONE", <<>>, <<>>, R_ARGS_SET)
                   [] word = W_GET ->
                        IF Len(parts) = 2
                        THEN Request("GET", parts[2], <<>>, <<>>)
                        ELSE Request("NONE", <<>>, <<>>, R_ARGS_GET)
                   [] word = W_DEL ->
                        IF Len(parts) = 2
                        THEN Request("DEL", parts[2], <<>>, <<>>)
                        ELSE Request("NONE", <<>>, <<>>, R_ARGS_DEL)
                   [] word = W_QUIT -> Request("QUIT", <<>>, <<>>, R_QUIT)
                   [] word = W_LIST -> Request("NONE", <<>>, <<>>, R_LIST)
                   [] OTHER -> Request("NONE", <<>>, <<>>, R_UNKNOWN)

\* handle_client, the SET / GET / DEL arms under the lock: the map they
\* leave and the response line
Serve(c, m) ==
    CASE c.op = "SET" ->
           [db |-> HashMapInsert(m, c.key, c.value), resp |-> R_OK]
      [] c.op = "GET" ->
           LET g == HashMapGet(m, c.key)
           IN  [db |-> m,
                resp |-> IF g.some THEN Utf8Encode(g.v \o <<LF>>) ELSE R_NIL]
      [] c.op = "DEL" ->
           LET r == HashMapRemove(m, c.key)
           IN  [db |-> r.map, resp |-> IF r.some THEN R_OK ELSE R_NIL]

\* the text requests of a client: "SET <key> <value>", "GET <key>", "DEL <key>"
SetText(k, v) == W_SET \o <<SP>> \o k \o <<SP>> \o v
GetText(k) == W_GET \o <<SP>> \o k
DelText(k) == W_DEL \o <<SP>> \o k

\* "a", "b"
KeyA == <<97>>
KeyB == <<98>>
\* the values clients ask to store: "x", "p  q" (two spaces), and two bytes
\* the first of which is no UTF-8
ClientValues == { <<120>>, <<112, 32, 32, 113>>, <<255, 122>> }

\* the bytes one read may return
Requests ==
    { SetText(KeyA, <<120>>), SetText(KeyA, <<112, 32, 32, 113>>), SetText(KeyB, <<255, 122>>),
      GetText(KeyA), GetText(KeyB), DelText(KeyA),
      <<113, 117, 105, 116, 13, 10>>,
      to_bytes(SimpleString(<<80, 73, 78, 71>>)),
      <<36, 53, 13, 10, 104, 101, 108, 108, 111>>,
      to_bytes(Array(<<BulkString(W_QUIT)>>)),
      W_LIST \o <<LF>>,
      CRLF }

\* two requests that arrive in one read: "GET a\n" "GET a\n", pipelined
Pipelined == { GetText(KeyA) \o GetText(KeyA) }

\* what one socket.read may return
Chunks == Requests \cup Pipelined

\* the number of requests in the bytes of one read
RequestsIn(bytes) == IF bytes \in Pipelined THEN 2 ELSE 1

\* A sequential store, run beside the HashMap: a set of entries, one per
\* key, each with the value and the request that set it.
SeqEntry(k, v, req) == [key |-> k, value |-> v, req |-> req]
SeqHas(st, k) == \E e \in st : e.key = k
SeqGet(st, k) == CHOOSE e \in st : e.key = k
SeqDel(st, k) == { e \in st : e.key # k }
SeqPut(st, k, v, req) == SeqDel(st, k) \cup { SeqEntry(k, v, req) }

\* the sequential store after operation c, which arrived as the bytes req
SeqApply(st, c, req) ==
    CASE c.op = "SET" -> SeqPut(st, c.key, c.value, req)
      [] c.op = "DEL" -> SeqDel(st, c.key)
      [] OTHER        -> st

\* what the sequential store answers to operation c: the reply line, whether
\* it had the key, and for a GET the request that had set the value returned
SeqReply(st, c) ==
    CASE c.op = "SET" -> [reply |-> R_OK, had |-> SeqHas(st, c.key), src |-> <<>>]
      [] c.op = "GET" ->
           IF SeqHas(st, c.key)
           THEN [reply |-> Utf8Encode(SeqGet(st, c.key).value) \o <<LF>>,
                 had |-> TRUE, src |-> SeqGet(st, c.key).req]
           ELSE [reply |-> R_NIL, had |-> FALSE, src |-> <<>>]
      [] c.op = "DEL" ->
           [reply |-> IF SeqHas(st, c.key) THEN R_OK ELSE R_NIL,
            had |-> SeqHas(st, c.key), src |-> <<>>]

NoRequest == Request("NONE", <<>>, <<>>, <<>>)
NoReply == [reply |-> <<>>, had |-> FALSE, src |-> <<>>]

\* main.rs:32-34, mutated: the error of handle_client is returned from main
\* (handle_client(..).await?)
AfterTaskErrorPropagated == "exited"

\* main.rs:32-34: what becomes of main when handle_client returns an error:
\* the error is printed and the accept loop goes on
AfterTaskError == "listening"

\* the lock is poisoned: a task panicked while it held the guard
MutexPoisoned == lock = -1

Init ==
    /\ db = EmptyMap
    /\ lock = 0
    /\ pc = [s \in Sessions |-> "unaccepted"]
    /\ cmd = [s \in Sessions |-> NoRequest]
    /\ resp = [s \in Sessions |-> <<>>]
    /\ inbox = [s \in Sessions |-> <<>>]
    /\ seq = {}
    /\ expect = [s \in Sessions |-> NoReply]
    /\ srv = "listening"
    /\ clients = Chunks
    /\ out = <<>> /\ log = <<>> /\ nreq = 0
    /\ val = Null /\ wire = <<>> /\ res = NoResult /\ phase = "off"

\* main: listener.accept() returns a connection, and a task running
\* handle_client on it is spawned
Accept(s) ==
    /\ srv = "listening"
    /\ pc[s] = "unaccepted"
    /\ \A t \in Sessions : t < s => pc[t] # "unaccepted"
    /\ pc' = [pc EXCEPT ![s] = "read"]
    /\ UNCHANGED <<db, lock, cmd, resp, inbox, seq, expect, srv>>

\* main: listener.accept() fails, `?` returns the error from main: the
\* runtime shuts down and drops every task (with its locals and any guard it
\* holds), and the process ends
AcceptError ==
    /\ srv = "listening"
    /\ srv' = "exited"
    /\ pc' = [s \in Sessions |-> "gone"]
    /\ cmd' = [s \in Sessions |-> NoRequest]
    /\ resp' = [s \in Sessions |-> <<>>]
    /\ inbox' = [s \in Sessions |-> <<>>]
    /\ expect' = [s \in Sessions |-> NoReply]
    /\ lock' = IF MutexPoisoned THEN lock ELSE 0
    /\ UNCHANGED <<db, seq>>

\* handle_client: socket.read returns n > 0 bytes; they are parsed, and a
\* response is at hand unless the command needs the store
Read(s) ==
    /\ srv = "listening"
    /\ pc[s] = "read"
    /\ \E bytes \in clients :
         /\ Len(bytes) <= BufSize
         /\ inbox' = [inbox EXCEPT ![s] = bytes]
         /\ LET c == Dispatch(bytes)
            IN  /\ cmd' = [cmd EXCEPT ![s] = c]
                /\ resp' = [resp EXCEPT ![s] = c.resp]
                /\ pc' = [pc EXCEPT ![s] =
                              IF c.op \in {"SET", "GET", "DEL"} THEN "lock" ELSE "write"]
    /\ UNCHANGED <<db, lock, seq, expect, srv>>

\* handle_client: socket.read returns 0, the client has disconnected
Disconnect(s) ==
    /\ srv = "listening"
    /\ pc[s] = "read"
    /\ pc' = [pc EXCEPT ![s] = "closed"]
    /\ UNCHANGED <<db, lock, cmd, resp, inbox, seq, expect, srv>>

\* handle_client: db.lock().unwrap()
Lock(s) ==
    /\ srv = "listening"
    /\ pc[s] = "lock"
    /\ MutexFree
    /\ lock' = s
    /\ pc' = [pc EXCEPT ![s] = "locked"]
    /\ UNCHANGED <<db, cmd, resp, inbox, seq, expect, srv>>

\* handle_client: db.lock() returns Err(PoisonError) and unwrap() panics: the
\* task unwinds, nothing is written to its socket
LockPoisoned(s) ==
    /\ srv = "listening"
    /\ pc[s] = "lock"
    /\ MutexPoisoned
    /\ pc' = [pc EXCEPT ![s] = "panicked"]
    /\ cmd' = [cmd EXCEPT ![s] = NoRequest]
    /\ resp' = [resp EXCEPT ![s] = <<>>]
    /\ inbox' = [inbox EXCEPT ![s] = <<>>]
    /\ UNCHANGED <<db, lock, seq, expect, srv>>

\* handle_client: the map operation and the response; the guard is dropped
\* at the end of the block.  The sequential store runs the same operation.
Apply(s) ==
    /\ srv = "listening"
    /\ pc[s] = "locked"
    /\ lock = s
    /\ LET r == Serve(cmd[s], db)
       IN  /\ db' = r.db
           /\ resp' = [resp EXCEPT ![s] = r.resp]
    /\ seq' = SeqApply(seq, cmd[s], inbox[s])
    /\ expect' = [expect EXCEPT ![s] = SeqReply(seq, cmd[s])]
    /\ lock' = 0
    /\ pc' = [pc EXCEPT ![s] = "write"]
    /\ UNCHANGED <<cmd, inbox, srv>>

\* handle_client: the task panics inside the locked block before the map is
\* changed (HashMap::insert panics when its capacity overflows): the guard is
\* dropped while unwinding, which poisons the Mutex; the task ends, caught by
\* the runtime
Panic(s) ==
    /\ srv = "listening"
    /\ pc[s] = "locked"
    /\ lock = s
    /\ lock' = -1
    /\ pc' = [pc EXCEPT ![s] = "panicked"]
    /\ cmd' = [cmd EXCEPT ![s] = NoRequest]
    /\ resp' = [resp EXCEPT ![s] = <<>>]
    /\ inbox' = [inbox EXCEPT ![s] = <<>>]
    /\ UNCHANGED <<db, seq, expect, srv>>

\* handle_client: socket.write_all(response); after QUIT the task returns,
\* otherwise the loop starts over (its locals go out of scope)
Write(s) ==
    /\ srv = "listening"
    /\ pc[s] = "write"
    /\ pc' = [pc EXCEPT ![s] = IF cmd[s].op = "QUIT" THEN "closed" ELSE "read"]
    /\ cmd' = [cmd EXCEPT ![s] = NoRequest]
    /\ resp' = [resp EXCEPT ![s] = <<>>]
    /\ inbox' = [inbox EXCEPT ![s] = <<>>]
    /\ expect' = [expect EXCEPT ![s] = NoReply]
    /\ UNCHANGED <<db, lock, seq, srv>>

\* handle_client: socket.read or socket.write_all fails, `?` returns the
\* error and the task ends; main prints it
IoError(s) ==
    /\ srv = "listening"
    /\ pc[s] \in {"read", "write"}
    /\ pc' = [pc EXCEPT ![s] = "failed"]
    /\ cmd' = [cmd EXCEPT ![s] = NoRequest]
    /\ resp' = [resp EXCEPT ![s] = <<>>]
    /\ inbox' = [inbox EXCEPT ![s] = <<>>]
    /\ expect' = [expect EXCEPT ![s] = NoReply]
    /\ srv' = AfterTaskError
    /\ UNCHANGED <<db, lock, seq>>

\* what the server's steps leave alone
Frame == UNCHANGED <<out, log, nreq, clients>> /\ UNCHANGED codecVars

Next ==
    \/ \E s \in Sessions : Accept(s) /\ Frame
    \/ \E s \in Sessions : Read(s) /\ Frame
    \/ \E s \in Sessions : Disconnect(s) /\ Frame
    \/ \E s \in Sessions : Lock(s) /\ Frame
    \/ \E s \in Sessions : Apply(s) /\ Frame
    \/ \E s \in Sessions : Write(s) /\ Frame
    \/ \E s \in Sessions : IoError(s) /\ Frame
    \/ \E s \in Sessions : LockPoisoned(s) /\ Frame
    \/ \E s \in Sessions : Panic(s) /\ Frame
    \/ AcceptError /\ Frame

Spec == Init /\ [][Next]_vars

\* The server with its scheduling: a task inside the locked block runs on (it
\* has no await there), and a task blocked in lock() gets the lock if it is
\* free again and again.
Fairness ==
    \A s \in Sessions :
        /\ WF_vars(Apply(s) /\ Frame)
        /\ SF_vars(Lock(s) /\ Frame)

\* the clients of the runs checked for progress: they set, read and delete
\* one key, send a request the server does not know, and quit
LiveChunks ==
    { SetText(KeyA, <<120>>), GetText(KeyA), DelText(KeyA),
      to_bytes(SimpleString(<<80, 73, 78, 71>>)), <<113, 117, 105, 116, 13, 10>> }

InitLive ==
    /\ db = EmptyMap
    /\ lock = 0
    /\ pc = [s \in Sessions |-> "unaccepted"]
    /\ cmd = [s \in Sessions |-> NoRequest]
    /\ resp = [s \in Sessions |-> <<>>]
    /\ inbox = [s \in Sessions |-> <<>>]
    /\ seq = {}
    /\ expect = [s \in Sessions |-> NoReply]
    /\ srv = "listening"
    /\ clients = LiveChunks
    /\ out = <<>> /\ log = <<>> /\ nreq = 0
    /\ val = Null /\ wire = <<>> /\ res = NoResult /\ phase = "off"

SpecLive == InitLive /\ [][Next]_vars /\ Fairness

----------------------------------------------------------------------------
(* The server against its claims.                                          *)

StoreOps == {"SET", "GET", "DEL"}

\* C1: every store operation takes effect in one step, under the lock, and
\* the HashMap and each response are those of the sequential store that
\* runs the operations one at a time in that order.
C1_Linearizable ==
    /\ { <<k, db[k]>> : k \in DOMAIN db } = { <<e.key, e.value>> : e \in seq }
    /\ \A s \in Sessions :
           (pc[s] = "write" /\ cmd[s].op \in StoreOps) => resp[s] = expect[s].reply
    /\ \A s, t \in Sessions :
           (pc[s] = "locked" /\ pc[t] = "locked") => (s = t /\ lock = s)

\* with "b" in the store, task 1 has set "a" and task 2 has read it back,
\* both about to answer
C1_Witness ==
    /\ pc[1] = "write" /\ cmd[1].op = "SET" /\ cmd[1].key = KeyA
    /\ pc[2] = "write" /\ cmd[2].op = "GET" /\ cmd[2].key = KeyA
    /\ resp[2] = cmd[1].value \o <<LF>>
    /\ KeyB \in DOMAIN db

\* the value a reply carries: the payload of a bulk string, or else the
\* reply line without its line feed
ReplyPayload(reply) ==
    LET d == from_stream(reply)
    IN  IF d.kind = "Some" /\ d.val.tag = "BulkString" /\ d.rest = <<>> THEN d.val.str
        ELSE IF Len(reply) > 0 /\ reply[Len(reply)] = LF
             THEN SubSeq(reply, 1, Len(reply) - 1)
             ELSE reply

\* C2 (as claimed): a request SET k v, then GET k with no SET or DEL on k in
\* between: the reply carries exactly the bytes v.
C2_BinarySafe ==
    \A s \in Sessions :
        (pc[s] = "write" /\ cmd[s].op = "GET") =>
            \A key \in {KeyA, KeyB}, v \in ClientValues :
                expect[s].src = SetText(key, v) => ReplyPayload(resp[s]) = v

\* C4 (as claimed): GET on an absent key is answered with Null, DEL on an
\* absent key with Integer(0), and DEL on a present key with Integer(1).
C4_GetDelResults ==
    \A s \in Sessions :
        pc[s] = "write" =>
            /\ (cmd[s].op = "GET" /\ ~expect[s].had) => resp[s] = to_bytes(Null)
            /\ (cmd[s].op = "DEL" /\ ~expect[s].had) => resp[s] = to_bytes(Integer(0))
            /\ (cmd[s].op = "DEL" /\ expect[s].had) => resp[s] = to_bytes(Integer(1))

\* a request is QUIT: the text command, or the RESP array that translates to
\* Command::Quit
IsQuit(bytes) ==
    \/ Dispatch(bytes).op = "QUIT"
    \/ LET d == from_stream(bytes)
       IN  d.kind = "Some" /\ d.val.tag = "Array" /\ parse_from_resp_array(d.val.arr) = Quit

\* C5 (as claimed): the response to QUIT is SimpleString("Connection closing
\* shortly"), and once it is written the session has ended.
C5_QuitCloses ==
    [][\A s \in Sessions :
           (pc[s] = "write" /\ IsQuit(inbox[s])) =>
               /\ resp[s] = to_bytes(SimpleString(T_CLOSING))
               /\ pc'[s] \in {"write", "closed", "failed"}]_vars

\* the bytes are one RESP Error value
IsErrorValue(bytes) ==
    LET d == from_stream(bytes)
    IN  d.kind = "Some" /\ d.val.tag = "Error" /\ d.rest = <<>>

\* C9 (as claimed): a request that from_stream cannot decode is answered
\* with an Error value, and the session goes on reading.
C9_DecodeErrorAnswered ==
    [][\A s \in Sessions :
           (pc[s] = "write" /\ from_stream(inbox[s]).kind = "Err") =>
               /\ IsErrorValue(resp[s])
               /\ pc'[s] # "closed"]_vars

\* "ERR Protocol error: expected array"
T_EXPECTED_ARRAY ==
    <<69, 82, 82, 32, 80, 114, 111, 116, 111, 99, 111, 108, 32, 101, 114, 114, 111, 114, 58, 32, 101, 120, 112, 101, 99, 116, 101, 100, 32, 97, 114, 114, 97, 121>>

\* C10 (as claimed): a request that decodes to a value other than an Array is
\* answered with Error("ERR Protocol error: expected array"); it is no store
\* operation and the session goes on reading.
C10_NonArrayRejected ==
    [][\A s \in Sessions :
           LET d == from_stream(inbox[s])
           IN  (pc[s] = "write" /\ d.kind = "Some" /\ d.val.tag # "Array") =>
                   /\ resp[s] = to_bytes(Error(T_EXPECTED_ARRAY))
                   /\ cmd[s].op \notin StoreOps
                   /\ pc'[s] # "closed"]_vars

\* the first connection main has not accepted yet
NextToAccept(s) ==
    pc[s] = "unaccepted" /\ \A t \in Sessions : t < s => pc[t] # "unaccepted"

\* C13: once the lock is poisoned, no task operates on the store; a task that
\* attempts a SET/GET/DEL ends in a panic and nothing is sent for it; tasks
\* reading requests or answering commands that need no store do not panic;
\* and main goes on accepting (as long as accept itself does not fail).
C13_PoisonBlastRadius ==
    /\ [][(MutexPoisoned /\ srv' = "listening") =>
            /\ db' = db /\ lock' = lock
            /\ \A s \in Sessions :
                   /\ (pc[s] = "lock" /\ pc'[s] # "lock") =>
                          (pc'[s] = "panicked" /\ resp'[s] = <<>>)
                   /\ pc[s] \in {"read", "write"} => pc'[s] # "panicked"]_vars
    /\ [](MutexPoisoned =>
            \A s \in Sessions :
                /\ pc[s] # "locked"
                /\ (srv = "listening" /\ NextToAccept(s)) => ENABLED (Accept(s) /\ Frame)
                /\ (srv = "listening" /\ pc[s] = "read") => ENABLED (Read(s) /\ Frame))

\* task 1 panicked inside the locked block, then task 2 asked for the lock
\* and panicked too
C13_Witness ==
    /\ MutexPoisoned
    /\ pc[1] = "panicked" /\ pc[2] = "panicked"

\* task 1 panicked inside the locked block; task 2 is answering a command
\* that needs no store
C13_WitnessUntouched ==
    /\ MutexPoisoned
    /\ pc[1] = "panicked"
    /\ pc[2] = "write" /\ cmd[2].op = "NONE"

C20_OneResponsePerRequest ==
    \A s \in Sessions : pc[s] = "write" => RequestsIn(inbox[s]) = 1

====
